---- MODULE Spec2Model ----
(***************************************************************************)
(* Model of viscoturb.py: a top-level script that reads a configuration,   *)
(* declares a 2D Oldroyd-B equation system, builds a solver, sets the stop *)
(* thresholds, registers three output handlers, runs the time loop and     *)
(* merges the output of the handlers kept in analysis_tasks.               *)
(*                                                                         *)
(* Units.  sim_time and stop_sim_time are counted in multiples of the      *)
(* fixed timestep dt (line 124); wall time in whole seconds.               *)
(*                                                                         *)
(* The name data_dir is read at line 104 and assigned nowhere in the file. *)
(* Spec is the script as written (module namespace without data_dir).      *)
(* SpecRun is the same script executed in a namespace that binds data_dir, *)
(* the only way the statements below line 104 can run at all.              *)
(* SpecStress evaluates the stress substitutions of lines 59-63 on sampled *)
(* field values.                                                           *)
(***************************************************************************)
EXTENDS Integers, Sequences, FiniteSets

VARIABLES pc, error, data_dir_bound, argv_mesh, mesh, runconfig,
          equations, pencil_eqs,
          stop_wall_time, stop_iteration, stop_sim_time,
          registered, analysis_tasks,
          iteration, sim_time, wall, steps, state_finite, writes,
          task_index, merged,
          lU11, U12, lU22, sigma

vars == <<pc, error, data_dir_bound, argv_mesh, mesh, runconfig,
          equations, pencil_eqs,
          stop_wall_time, stop_iteration, stop_sim_time,
          registered, analysis_tasks,
          iteration, sim_time, wall, steps, state_finite, writes,
          task_index, merged,
          lU11, U12, lU22, sigma>>

(* ------------------------------- bounds -------------------------------- *)
MaxThreshold == 3      \* largest configured stop threshold
MaxIter == 4           \* cap on the iterations of a run without a threshold
MaxWall == 2           \* cap on the elapsed wall seconds
MaxK == 2              \* wavenumbers range over -MaxK..MaxK on each axis
MaxLog == 2            \* lU11, lU22 range over k*ln(2), k in -MaxLog..MaxLog
MaxU12 == 6            \* U12 ranges over c / 2^MaxLog, c in -MaxU12..MaxU12

(* ------------------------------ constants ------------------------------ *)
None == -1             \* SectionProxy.getfloat / getint of a missing key
inf == -2              \* np.inf

Handlers == {"checkpoints", "snapshots", "timeseries"}

(* ------------------------- argument parsing ---------------------------- *)
\* A decimal token is a sequence of digits; int(token) by Horner's rule.
RECURSIVE IntOf(_)
IntOf(tok) ==
    IF tok = <<>> THEN 0
    ELSE 10 * IntOf(SubSeq(tok, 1, Len(tok) - 1)) + tok[Len(tok)]

\* --mesh: <<>> stands for the default string 'None', otherwise the
\* comma-separated tokens.
MeshArgs == { <<>>, << <<1>>, <<1>> >>, << <<0, 1>>, <<1>> >> }

ParseMesh(arg) ==
    IF arg = <<>> THEN <<>>
    ELSE [i \in 1..Len(arg) |-> IntOf(arg[i])]

(* ----------------------------- configuration --------------------------- *)
ThresholdValues == {None} \cup (0..MaxThreshold)

RunConfigs == [stop_wall_time : ThresholdValues,
               stop_iteration : ThresholdValues,
               stop_sim_time  : ThresholdValues]

\* Python truthiness of the value returned by getfloat / getint.
Truthy(v) == v # None /\ v # 0

StopWallTime(run_opts) ==
    IF Truthy(run_opts.stop_wall_time) THEN run_opts.stop_wall_time ELSE inf

StopIterationOffByOne(run_opts) ==
    IF Truthy(run_opts.stop_iteration) THEN run_opts.stop_iteration + 1 ELSE inf

StopIteration(run_opts) ==
    IF Truthy(run_opts.stop_iteration) THEN run_opts.stop_iteration ELSE inf

StopSimTime(run_opts) ==
    IF Truthy(run_opts.stop_sim_time) THEN run_opts.stop_sim_time ELSE inf

(* ------------------------------ equations ------------------------------ *)
\* The conditions are evaluated per pencil on the wavenumbers nx, ny of the
\* x and y Fourier bases.
CondTrue(knx, kny) == TRUE

CondNonzeroModeAnd(knx, kny) == knx # 0 /\ kny # 0

CondNonzeroMode(knx, kny) == knx # 0 \/ kny # 0

CondZeroMode(knx, kny) == knx = 0 /\ kny = 0

CondHolds(c, knx, kny) ==
    CASE c = "True" -> CondTrue(knx, kny)
      [] c = "nx != 0 or ny != 0" -> CondNonzeroMode(knx, kny)
      [] c = "nx == 0 and ny == 0" -> CondZeroMode(knx, kny)

Equations ==
    << [eq |-> "dt(u)",          condition |-> "True"],
       [eq |-> "dt(v)",          condition |-> "True"],
       [eq |-> "dx(u) + dy(v) = 0", condition |-> "nx != 0 or ny != 0"],
       [eq |-> "p = 0",          condition |-> "nx == 0 and ny == 0"],
       [eq |-> "dt(lU11)",       condition |-> "True"],
       [eq |-> "dt(U12)",        condition |-> "True"],
       [eq |-> "dt(lU22)",       condition |-> "True"] >>

Modes == (-MaxK..MaxK) \X (-MaxK..MaxK)

\* The equations whose condition holds for the pencil of mode m.
PencilEquations(eqs, m) ==
    {i \in 1..Len(eqs) : CondHolds(eqs[i].condition, m[1], m[2])}

\* The two conditional equations: the constraints that close p.
Constraints(eqs) == {i \in 1..Len(eqs) : eqs[i].condition # "True"}

(* ------------------------- stress substitutions ------------------------ *)
\* Field values are sampled at one grid point.  lU11 and lU22 are multiples
\* k*ln(2), so exp is exact: exp(k*ln 2) = 2^k.  Every real is carried as an
\* integer multiple of 1/Scale; a product of two such numbers is a multiple
\* of 1/Scale^2.
RECURSIVE Pow2(_)
Pow2(n) == IF n = 0 THEN 1 ELSE 2 * Pow2(n - 1)

Scale == Pow2(MaxLog)

exp(k) == Pow2(k + MaxLog)                    \* exp(k ln 2) * Scale

U11(l11) == exp(l11)
U22(l22) == exp(l22)
sigma11(l11, u12, l22) == U11(l11) * U11(l11)
sigma12(l11, u12, l22) == U11(l11) * u12
sigma22(l11, u12, l22) == U22(l22) * U22(l22)

LogValues == -MaxLog..MaxLog
U12Values == -MaxU12..MaxU12

NoSigma == [s11 |-> 0, s12 |-> 0, s22 |-> 0]

(* -------------------------------- solver ------------------------------- *)
Lt(x, threshold) == threshold = inf \/ x < threshold

\* solver.ok
ok == /\ Lt(wall, stop_wall_time)
      /\ Lt(iteration, stop_iteration)
      /\ Lt(sim_time, stop_sim_time)

(* ------------------------------- initial ------------------------------- *)
InitCommon ==
    /\ pc = "args"
    /\ error = "none"
    /\ argv_mesh \in MeshArgs
    /\ mesh = <<>>
    /\ runconfig \in RunConfigs
    /\ equations = <<>>
    /\ pencil_eqs = [m \in Modes |-> {}]
    /\ stop_wall_time = inf /\ stop_iteration = inf /\ stop_sim_time = inf
    /\ registered = {}
    /\ analysis_tasks = <<>>
    /\ iteration = 0 /\ sim_time = 0 /\ wall = 0 /\ steps = 0
    /\ state_finite = TRUE
    /\ writes = [h \in Handlers |-> 0]
    /\ task_index = 0
    /\ merged = [h \in Handlers |-> 0]
    /\ lU11 = 0 /\ U12 = 0 /\ lU22 = 0
    /\ sigma = NoSigma

Init == InitCommon /\ data_dir_bound = FALSE

InitRun == InitCommon /\ data_dir_bound = TRUE

(* ------------------------------- startup ------------------------------- *)
\* lines 25-30
ParseArgs ==
    /\ pc = "args"
    /\ mesh' = ParseMesh(argv_mesh)
    /\ pc' = "config"
    /\ UNCHANGED <<error, data_dir_bound, argv_mesh, runconfig, equations,
                   pencil_eqs, stop_wall_time, stop_iteration, stop_sim_time,
                   registered, analysis_tasks, iteration, sim_time, wall,
                   steps, state_finite, writes, task_index, merged,
                   lU11, U12, lU22, sigma>>

\* lines 34-45
ReadConfig ==
    /\ pc = "config"
    /\ pc' = "domain"
    /\ UNCHANGED <<error, data_dir_bound, argv_mesh, mesh, runconfig,
                   equations, pencil_eqs, stop_wall_time, stop_iteration,
                   stop_sim_time, registered, analysis_tasks, iteration,
                   sim_time, wall, steps, state_finite, writes, task_index,
                   merged, lU11, U12, lU22, sigma>>

\* lines 48-51
BuildDomain ==
    /\ pc = "domain"
    /\ pc' = "equations"
    /\ UNCHANGED <<error, data_dir_bound, argv_mesh, mesh, runconfig,
                   equations, pencil_eqs, stop_wall_time, stop_iteration,
                   stop_sim_time, registered, analysis_tasks, iteration,
                   sim_time, wall, steps, state_finite, writes, task_index,
                   merged, lU11, U12, lU22, sigma>>

\* lines 53-80
DeclareEquations ==
    /\ pc = "equations"
    /\ equations' = Equations
    /\ pc' = "solver"
    /\ UNCHANGED <<error, data_dir_bound, argv_mesh, mesh, runconfig,
                   pencil_eqs, stop_wall_time, stop_iteration,
                   stop_sim_time, registered, analysis_tasks, iteration,
                   sim_time, wall, steps, state_finite, writes, task_index,
                   merged, lU11, U12, lU22, sigma>>

\* line 83
BuildSolver ==
    /\ pc = "solver"
    /\ pencil_eqs' = [m \in Modes |-> PencilEquations(equations, m)]
    /\ pc' = "thresholds"
    /\ UNCHANGED <<error, data_dir_bound, argv_mesh, mesh, runconfig,
                   equations, stop_wall_time, stop_iteration,
                   stop_sim_time, registered, analysis_tasks, iteration,
                   sim_time, wall, steps, state_finite, writes, task_index,
                   merged, lU11, U12, lU22, sigma>>

\* lines 86-100
SetStopThresholds ==
    /\ pc = "thresholds"
    /\ stop_wall_time' = StopWallTime(runconfig)
    /\ stop_iteration' = StopIteration(runconfig)
    /\ stop_sim_time' = StopSimTime(runconfig)
    /\ pc' = "handlers"
    /\ UNCHANGED <<error, data_dir_bound, argv_mesh, mesh, runconfig,
                   equations, pencil_eqs, registered, analysis_tasks,
                   iteration, sim_time, wall, steps, state_finite, writes,
                   task_index, merged, lU11, U12, lU22, sigma>>

\* lines 102-125
RegisterHandlers ==
    /\ pc = "handlers"
    /\ IF data_dir_bound
       THEN /\ registered' = {"checkpoints", "snapshots", "timeseries"}
            /\ analysis_tasks' = <<"checkpoints", "snapshots">>
            /\ pc' = "loop"
            /\ error' = error
       ELSE /\ registered' = registered
            /\ analysis_tasks' = <<>>
            /\ pc' = "error"
            /\ error' = "NameError"
    /\ UNCHANGED <<data_dir_bound, argv_mesh, mesh, runconfig, equations,
                   pencil_eqs, stop_wall_time, stop_iteration, stop_sim_time,
                   iteration, sim_time, wall, steps, state_finite, writes,
                   task_index, merged, lU11, U12, lU22, sigma>>

(* ------------------------------ time loop ------------------------------ *)
\* line 126: the while test; lines 130-133 when it fails
LoopTest ==
    /\ pc = "loop"
    /\ IF ok
       THEN /\ iteration < MaxIter
            /\ pc' = "body"
            /\ task_index' = task_index
       ELSE /\ pc' = "merge"
            /\ task_index' = 1
    /\ UNCHANGED <<error, data_dir_bound, argv_mesh, mesh, runconfig,
                   equations, pencil_eqs, stop_wall_time, stop_iteration,
                   stop_sim_time, registered, analysis_tasks, iteration,
                   sim_time, wall, steps, state_finite, writes, merged,
                   lU11, U12, lU22, sigma>>

\* lines 127-129: solver.step(dt).  The handlers that write during the step
\* are chosen by the evaluator from their cadences; the fields may overflow.
Step ==
    /\ pc = "body"
    /\ \E d \in 0..1, fired \in SUBSET registered, stays_finite \in BOOLEAN :
          /\ wall + d <= MaxWall
          /\ wall' = wall + d
          /\ writes' = [h \in Handlers |->
                           IF h \in fired THEN writes[h] + 1 ELSE writes[h]]
          /\ state_finite' = (state_finite /\ stays_finite)
    /\ iteration' = iteration + 1
    /\ sim_time' = sim_time + 1
    /\ steps' = steps + 1
    /\ pc' = "loop"
    /\ UNCHANGED <<error, data_dir_bound, argv_mesh, mesh, runconfig,
                   equations, pencil_eqs, stop_wall_time, stop_iteration,
                   stop_sim_time, registered, analysis_tasks, task_index,
                   merged, lU11, U12, lU22, sigma>>

(* -------------------------------- merge -------------------------------- *)
\* A merge loop that does not wait for the time loop to end.
MergeTaskEarly ==
    /\ pc \in {"merge", "loop"}
    /\ \E h \in Handlers :
          /\ merged[h] = 0
          /\ merged' = [merged EXCEPT ![h] = @ + 1]
    /\ UNCHANGED <<pc, error, data_dir_bound, argv_mesh, mesh, runconfig,
                   equations, pencil_eqs, stop_wall_time, stop_iteration,
                   stop_sim_time, registered, analysis_tasks, iteration,
                   sim_time, wall, steps, state_finite, writes, task_index,
                   lU11, U12, lU22, sigma>>

\* lines 134-136: one pass of the for loop; post.merge_analysis may raise on
\* a missing or corrupt segment, and nothing catches it.
MergeTask ==
    /\ pc = "merge"
    /\ task_index <= Len(analysis_tasks)
    /\ merged' = [merged EXCEPT ![analysis_tasks[task_index]] = @ + 1]
    /\ \E raised \in BOOLEAN :
          IF raised
          THEN /\ pc' = "error"
               /\ error' = "MergeError"
               /\ task_index' = task_index
          ELSE /\ pc' = pc
               /\ error' = error
               /\ task_index' = task_index + 1
    /\ UNCHANGED <<data_dir_bound, argv_mesh, mesh, runconfig, equations,
                   pencil_eqs, stop_wall_time, stop_iteration, stop_sim_time,
                   registered, analysis_tasks, iteration, sim_time, wall,
                   steps, state_finite, writes, lU11, U12, lU22, sigma>>

\* the for loop is exhausted: the script ends
Finish ==
    /\ pc = "merge"
    /\ task_index > Len(analysis_tasks)
    /\ pc' = "done"
    /\ UNCHANGED <<error, data_dir_bound, argv_mesh, mesh, runconfig,
                   equations, pencil_eqs, stop_wall_time, stop_iteration,
                   stop_sim_time, registered, analysis_tasks, iteration,
                   sim_time, wall, steps, state_finite, writes, task_index,
                   merged, lU11, U12, lU22, sigma>>

(* ---------------------------- specifications --------------------------- *)
\* The script as written never gets past line 104, so its behaviours are
\* those of the startup statements.
NextStartup ==
    \/ ParseArgs
    \/ ReadConfig
    \/ BuildDomain
    \/ DeclareEquations
    \/ BuildSolver
    \/ SetStopThresholds
    \/ RegisterHandlers

Spec == Init /\ [][NextStartup]_vars

Next ==
    \/ ParseArgs
    \/ ReadConfig
    \/ BuildDomain
    \/ DeclareEquations
    \/ BuildSolver
    \/ SetStopThresholds
    \/ RegisterHandlers
    \/ LoopTest
    \/ Step
    \/ MergeTask
    \/ Finish

SpecRun == InitRun /\ [][Next]_vars

(* ------------------ evaluation of the stress substitutions ------------- *)
InitStress ==
    /\ pc = "fields"
    /\ error = "none"
    /\ data_dir_bound = FALSE
    /\ argv_mesh = <<>>
    /\ mesh = <<>>
    /\ runconfig = [stop_wall_time |-> None, stop_iteration |-> None,
                    stop_sim_time |-> None]
    /\ equations = <<>>
    /\ pencil_eqs = [m \in Modes |-> {}]
    /\ stop_wall_time = inf /\ stop_iteration = inf /\ stop_sim_time = inf
    /\ registered = {}
    /\ analysis_tasks = <<>>
    /\ iteration = 0 /\ sim_time = 0 /\ wall = 0 /\ steps = 0
    /\ state_finite = TRUE
    /\ writes = [h \in Handlers |-> 0]
    /\ task_index = 0
    /\ merged = [h \in Handlers |-> 0]
    /\ lU11 \in LogValues
    /\ U12 \in U12Values
    /\ lU22 \in LogValues
    /\ sigma = NoSigma

\* lines 59-63 expanded on the sampled fields (the tasks of lines 112-114)
EvalStress ==
    /\ pc = "fields"
    /\ sigma' = [s11 |-> sigma11(lU11, U12, lU22),
                 s12 |-> sigma12(lU11, U12, lU22),
                 s22 |-> sigma22(lU11, U12, lU22)]
    /\ pc' = "evaluated"
    /\ UNCHANGED <<error, data_dir_bound, argv_mesh, mesh, runconfig,
                   equations, pencil_eqs, stop_wall_time, stop_iteration,
                   stop_sim_time, registered, analysis_tasks, iteration,
                   sim_time, wall, steps, state_finite, writes, task_index,
                   merged, lU11, U12, lU22>>

NextStress == EvalStress

SpecStress == InitStress /\ [][NextStress]_vars

(* ------------------------------ properties ----------------------------- *)
PastLoop == pc \in {"merge", "done"} \/ (pc = "error" /\ error = "MergeError")

Terminated == pc = "done" \/ (pc = "error" /\ error = "MergeError")

MergeStarted == \E h \in Handlers : merged[h] > 0

\* The threshold as the configuration states it: only a missing key is
\* unbounded.
Configured(v) == IF v = None THEN inf ELSE v

BelowConfiguredThresholds ==
    /\ Lt(wall, Configured(runconfig.stop_wall_time))
    /\ Lt(iteration, Configured(runconfig.stop_iteration))
    /\ Lt(sim_time, Configured(runconfig.stop_sim_time))

\* C1: for every configuration of the three thresholds (absent, or a value,
\* 0 included) the loop body is entered exactly when wall, iteration and
\* sim_time are all below the configured thresholds, an absent threshold
\* alone being infinite; the loop is left only when one of them is reached.
C1_StepExactlyWhileBelowThresholds ==
    /\ pc = "body" => BelowConfiguredThresholds
    /\ PastLoop => ~BelowConfiguredThresholds

\* C2: when the script has finished, merge has been invoked exactly once for
\* every handler registered on the solver (checkpoints, snapshots and
\* timeseries).
C2_EveryRegisteredHandlerMergedOnce ==
    pc = "done" => \A h \in registered : merged[h] = 1

\* C3: when the script has ended, with or without a merge error, every
\* handler of the merge loop has been merged: a failure on an earlier
\* handler does not prevent the merge of a later one.
C3_MergeErrorDoesNotBlockOthers ==
    Terminated =>
        \A i \in 1..Len(analysis_tasks) : merged[analysis_tasks[i]] >= 1

SolverBuilt == equations # <<>> /\ pc # "solver"

\* C5: once the solver is built, every wavenumber pair has exactly one of the
\* two conditional equations (incompressibility, pressure gauge) in its
\* pencil: no mode is left without a constraint and none has both.
C5_ConditionsPartitionModes ==
    SolverBuilt =>
        \A m \in Modes :
            Cardinality(pencil_eqs[m] \cap Constraints(equations)) = 1

C5_Witness ==
    /\ SolverBuilt
    /\ pencil_eqs[<<0, 0>>] \cap Constraints(equations) = {4}
    /\ pencil_eqs[<<1, 0>>] \cap Constraints(equations) = {3}
    /\ pencil_eqs[<<0, -1>>] \cap Constraints(equations) = {3}

\* C6: for all sampled finite values of lU11, U12, lU22 the stress tensor
\* evaluated from the substitutions is positive definite: sigma11 > 0 and
\* sigma11*sigma22 - sigma12*sigma12 > 0.
C6_StressPositiveDefinite ==
    pc = "evaluated" =>
        /\ sigma.s11 > 0
        /\ sigma.s11 * sigma.s22 - sigma.s12 * sigma.s12 > 0

\* C8: no merge has started while the script is at the loop test or in the
\* loop body, and once a merge has started no step is executed and no
\* handler writes.
C8_MergeOnlyAfterLoop ==
    /\ [](MergeStarted => pc \notin {"loop", "body"})
    /\ [][MergeStarted => (steps' = steps /\ writes' = writes)]_vars

C8_Witness ==
    /\ pc = "merge"
    /\ task_index = 2
    /\ merged["checkpoints"] = 1
    /\ steps = 2
    /\ writes["timeseries"] = 1
    /\ writes["snapshots"] = 2

\* C9: once a field is non-finite no further step is taken and no handler
\* writes.
C9_NoStepAfterNonFinite ==
    [][~state_finite => (steps' = steps /\ writes' = writes)]_vars

\* C10: with a valid configuration and a consistent mesh no startup phase
\* raises: every name used is bound, and the script gets to the time loop.
C10_StartupCompletes == pc # "error"

====
